---- MODULE Spec2Model ----
(***************************************************************************)
(* A model of app.py (Extrator_ORCID_Crossref): the identifier normaliser, *)
(* the Event Data pagination loop, the collection pipeline and the column  *)
(* ordering of the output table.                                           *)
(*                                                                         *)
(* Python strings whose characters matter (identifiers, source labels,     *)
(* column names) are sequences of character codes, so that strip, replace, *)
(* startswith, slicing and sorted() are computed as Python computes them.  *)
(* Opaque values (a DOI, a cursor, a title) are TLA+ strings.              *)
(***************************************************************************)
EXTENDS Integers, Sequences, FiniteSets, TLC

VARIABLES
    \* normalizar_orcid called on its own
    orcid_arg, orcid_ret,
    \* the upstream services: the work listings, metadata records, event pages
    \* and next cursors they may answer with
    upstream,
    \* coletar_para_lista_orcids: arguments
    orcids, fontes_fixas, eventdata_max_pages,
    \* coletar_para_lista_orcids: locals and position
    pc, idx_orcid, orcid, works, i, doi, linha, linhas,
    \* main: the table coletar_para_lista_orcids returns, and its ordered columns
    df_columns, cols_out,
    \* eventdata_por_doi: locals
    page, cursor, contagem_por_fonte,
    \* what the callbacks and the upstream services have seen
    progress_log, log_erros, io, resposta, eventos_vistos, rotulos_vistos, listed

varsO == <<orcid_arg, orcid_ret>>
varsA == <<orcids, fontes_fixas, eventdata_max_pages, upstream>>
varsL == <<pc, idx_orcid, orcid, works, i, doi, linha, linhas>>
varsM == <<df_columns, cols_out>>
varsE == <<page, cursor, contagem_por_fonte>>
varsH == <<progress_log, log_erros, io, resposta, eventos_vistos, rotulos_vistos, listed>>
varsP == <<varsA, varsL, varsM, varsE, varsH>>
vars == <<varsO, varsP>>

\* Python's None where a string is expected: an opaque string (a DOI, a cursor)
\* and a string of character codes (an identifier, a source label)
None == "None"
NoStr == <<-1>>

(***************************************************************************)
(* Characters and strings                                                  *)
(***************************************************************************)
SPACE == <<32>>
TAB == <<9>>
HYPHEN == <<45>>

\* str.isspace for the characters the model uses
IsSpaceChar(c) == c \in {9, 10, 13, 32}

\* str.strip(): leading and trailing whitespace removed
RECURSIVE LStrip(_)
LStrip(s) == IF s # <<>> /\ IsSpaceChar(Head(s)) THEN LStrip(Tail(s)) ELSE s

RECURSIVE RStrip(_)
RStrip(s) ==
    IF s # <<>> /\ IsSpaceChar(s[Len(s)]) THEN RStrip(SubSeq(s, 1, Len(s) - 1)) ELSE s

Strip(s) == RStrip(LStrip(s))

\* str.replace(ch, "") for a one-character ch
RECURSIVE ReplaceChar(_, _)
ReplaceChar(s, ch) ==
    IF s = <<>> THEN <<>>
    ELSE IF <<Head(s)>> = ch THEN ReplaceChar(Tail(s), ch)
    ELSE <<Head(s)>> \o ReplaceChar(Tail(s), ch)

\* Python's slice s[a:b] (0-based, end exclusive, clipped to the string)
Slice(s, a, b) ==
    LET hi == IF b > Len(s) THEN Len(s) ELSE b
    IN IF a >= hi THEN <<>> ELSE SubSeq(s, a + 1, hi)

(***************************************************************************)
(* normalizar_orcid                                                        *)
(***************************************************************************)
OrcidLen == 16

normalizar_orcid_keeps_spaces(s) ==
    LET o == Strip(s)
        raw == ReplaceChar(o, HYPHEN)
    IN IF Len(raw) = OrcidLen
       THEN Slice(raw, 0, 4) \o HYPHEN \o Slice(raw, 4, 8) \o HYPHEN
            \o Slice(raw, 8, 12) \o HYPHEN \o Slice(raw, 12, 16)
       ELSE o

normalizar_orcid(s) ==
    LET o == ReplaceChar(Strip(s), SPACE)
        raw == ReplaceChar(o, HYPHEN)
    IN IF Len(raw) = OrcidLen
       THEN Slice(raw, 0, 4) \o HYPHEN \o Slice(raw, 4, 8) \o HYPHEN
            \o Slice(raw, 8, 12) \o HYPHEN \o Slice(raw, 12, 16)
       ELSE o

\* The characters of the model's identifiers: digits, the checksum letter X
\* and a letter that no identifier holds.
IsDigit(c) == c \in 48..57
Digit(k) == 48 + (k % 10)

\* A run of n characters: digits, digits ending in X, or digits with a letter.
OrcidBodies ==
    UNION { { [k \in 1..n |-> Digit(k)],
              [k \in 1..n |-> IF k = n THEN 88 ELSE Digit(k + 3)],
              [k \in 1..n |-> IF k = 7 THEN 97 ELSE Digit(2 * k)] }
            : n \in (OrcidLen - 1)..(OrcidLen + 1) }

\* After these positions of the run a separator may stand: the canonical ones
\* (4, 8, 12) and a misplaced one.
SepSlots == {4, 6, 8, 12}
SepChoices == {<<>>, HYPHEN, SPACE, TAB}

RECURSIVE WithSeps(_, _, _)
WithSeps(body, sep, k) ==
    IF k > Len(body) THEN <<>>
    ELSE <<body[k]>> \o (IF k \in SepSlots THEN sep[k] ELSE <<>>)
         \o WithSeps(body, sep, k + 1)

OrcidInputs ==
    { lead \o WithSeps(body, sep, 1) \o trail :
        lead \in {<<>>, SPACE, TAB}, trail \in {<<>>, SPACE},
        body \in OrcidBodies, sep \in [SepSlots -> SepChoices] }

(***************************************************************************)
(* Specification SpecOrcid: normalizar_orcid applied to one input          *)
(***************************************************************************)
IdleO == orcid_arg = <<>> /\ orcid_ret = NoStr

IdleP ==
    /\ orcids = <<>> /\ fontes_fixas = <<>> /\ eventdata_max_pages = 0
    /\ upstream = [works |-> {}, pages |-> {}, crossref |-> {}, cursors |-> {}]
    /\ pc = "idle" /\ idx_orcid = 0 /\ orcid = NoStr /\ works = <<>> /\ i = 0
    /\ doi = None /\ linha = <<>> /\ linhas = <<>>
    /\ df_columns = <<>> /\ cols_out = <<>>
    /\ page = 0 /\ cursor = None /\ contagem_por_fonte = <<>>
    /\ progress_log = <<>> /\ log_erros = <<>> /\ io = <<>> /\ listed = <<>>
    /\ resposta = [cursor |-> None, n |-> 0, next |-> None] /\ eventos_vistos = 0 /\ rotulos_vistos = <<>>

InitOrcid ==
    /\ orcid_arg \in OrcidInputs
    /\ orcid_ret = NoStr
    /\ IdleP

CallNormalizar ==
    /\ pc = "idle"
    /\ orcid_ret = NoStr
    /\ orcid_ret' = normalizar_orcid(orcid_arg)
    /\ UNCHANGED <<orcid_arg, varsP>>

NextOrcid == CallNormalizar

SpecOrcid == InitOrcid /\ [][NextOrcid]_vars

\* ---- C8 ----
NotSpace(c) == c # 32
NotHyphen(c) == c # 45

\* The characters normalizar_orcid counts: those of the trimmed input that are
\* neither spaces nor hyphens.
OrcidChars(s) == SelectSeq(SelectSeq(Strip(s), NotSpace), NotHyphen)

\* out is four groups of four characters joined by hyphens, holding chars in order
FourGroupsOf(out, chars) ==
    /\ Len(chars) = 16
    /\ Len(out) = 19
    /\ out[5] = 45 /\ out[10] = 45 /\ out[15] = 45
    /\ \A k \in 1..16 : out[k + ((k - 1) \div 4)] = chars[k]

\* C8 as stated: 16 digits without separators give four groups of four joined
\* by hyphens, and on every other input normalizar_orcid is the identity on the
\* trimmed input.
C8_Original ==
    orcid_ret # NoStr =>
        IF Len(orcid_arg) = 16 /\ \A k \in 1..16 : IsDigit(orcid_arg[k])
        THEN FourGroupsOf(orcid_ret, orcid_arg)
        ELSE orcid_ret = Strip(orcid_arg)

\* C8 as amended: normalizar_orcid trims the input and deletes every space; when
\* 16 characters other than hyphens remain (digits or not, wherever the hyphens
\* stood) it returns them as four groups of four joined by hyphens, and otherwise
\* it returns the trimmed input without its spaces. It is the identity on the
\* trimmed input when that input holds no space and either holds no 16 such
\* characters or is already grouped four by four.
C8_Normalizar ==
    orcid_ret # NoStr =>
        LET t == Strip(orcid_arg)
            chars == OrcidChars(orcid_arg)
        IN /\ IF Len(chars) = 16
              THEN FourGroupsOf(orcid_ret, chars)
              ELSE orcid_ret = SelectSeq(t, NotSpace)
           /\ (Len(orcid_arg) = 16 /\ \A k \in 1..16 : IsDigit(orcid_arg[k]))
                => FourGroupsOf(orcid_ret, orcid_arg)
           /\ (SelectSeq(t, NotSpace) = t /\ (Len(chars) # 16 \/ FourGroupsOf(t, chars)))
                => orcid_ret = t

\* C8 witness: an input with a misplaced hyphen and an inner space around 16
\* characters has been regrouped, so the result is not the trimmed input.
C8_Witness ==
    /\ orcid_ret # NoStr
    /\ Len(OrcidChars(orcid_arg)) = 16
    /\ \E k \in 1..Len(orcid_arg) : orcid_arg[k] = 32 /\ k > 1 /\ k < Len(orcid_arg)
    /\ Len(Strip(orcid_arg)) > 6 /\ Strip(orcid_arg)[7] = 45
    /\ orcid_ret # Strip(orcid_arg)
    /\ FourGroupsOf(orcid_ret, OrcidChars(orcid_arg))

(***************************************************************************)
(* Python values and dictionaries                                          *)
(*                                                                         *)
(* A cell of a row is a tagged value, since a column may hold an integer,  *)
(* a string or None. A dict is the sequence of its <<key, value>> pairs in *)
(* insertion order (Python dicts keep it, and pandas reads the columns of  *)
(* a table off it).                                                        *)
(***************************************************************************)
IntV(n) == <<"int", n>>
StrV(s) == <<"str", s>>
NoneV == <<"none", 0>>
\* the cell pandas shows for a row that lacks the column
NaN == <<"nan", 0>>
OptV(s) == IF s = None THEN NoneV ELSE StrV(s)

Keys(d) == [k \in 1..Len(d) |-> d[k][1]]
Range(s) == { s[k] : k \in 1..Len(s) }
HasKey(d, key) == \E k \in 1..Len(d) : d[k][1] = key

\* d.get(key, default)
DictGet(d, key, default) ==
    IF HasKey(d, key)
    THEN d[CHOOSE k \in 1..Len(d) : d[k][1] = key][2]
    ELSE default

\* d[key] = value
DictSet(d, key, value) ==
    IF HasKey(d, key)
    THEN [k \in 1..Len(d) |-> IF d[k][1] = key THEN <<key, value>> ELSE d[k]]
    ELSE Append(d, <<key, value>>)

\* d.update(e)
RECURSIVE DictUpdate(_, _)
DictUpdate(d, e) ==
    IF e = <<>> THEN d
    ELSE DictUpdate(DictSet(d, Head(e)[1], Head(e)[2]), Tail(e))

(***************************************************************************)
(* Column names and source labels                                          *)
(***************************************************************************)
\* "orcid"
S_orcid == <<111, 114, 99, 105, 100>>
\* "put_code"
S_put_code == <<112, 117, 116, 95, 99, 111, 100, 101>>
\* "title"
S_title == <<116, 105, 116, 108, 101>>
\* "type"
S_type == <<116, 121, 112, 101>>
\* "publication_year_orcid"
S_publication_year_orcid ==
    <<112, 117, 98, 108, 105, 99, 97, 116, 105, 111, 110, 95, 121, 101, 97, 114,
      95, 111, 114, 99, 105, 100>>
\* "source_orcid"
S_source_orcid == <<115, 111, 117, 114, 99, 101, 95, 111, 114, 99, 105, 100>>
\* "doi"
S_doi == <<100, 111, 105>>
\* "crossref_is_referenced_by_count"
S_crossref_is_referenced_by_count ==
    <<99, 114, 111, 115, 115, 114, 101, 102, 95, 105, 115, 95, 114, 101, 102, 101,
      114, 101, 110, 99, 101, 100, 95, 98, 121, 95, 99, 111, 117, 110, 116>>
\* "crossref_references_count"
S_crossref_references_count ==
    <<99, 114, 111, 115, 115, 114, 101, 102, 95, 114, 101, 102, 101, 114, 101, 110,
      99, 101, 115, 95, 99, 111, 117, 110, 116>>
\* "crossref_container_title"
S_crossref_container_title ==
    <<99, 114, 111, 115, 115, 114, 101, 102, 95, 99, 111, 110, 116, 97, 105, 110,
      101, 114, 95, 116, 105, 116, 108, 101>>
\* "crossref_publisher"
S_crossref_publisher ==
    <<99, 114, 111, 115, 115, 114, 101, 102, 95, 112, 117, 98, 108, 105, 115, 104,
      101, 114>>
\* "crossref_issued_year"
S_crossref_issued_year ==
    <<99, 114, 111, 115, 115, 114, 101, 102, 95, 105, 115, 115, 117, 101, 100, 95,
      121, 101, 97, 114>>
\* "eventdata_source_"
S_eventdata_source_ ==
    <<101, 118, 101, 110, 116, 100, 97, 116, 97, 95, 115, 111, 117, 114, 99, 101, 95>>
\* "unknown"
S_unknown == <<117, 110, 107, 110, 111, 119, 110>>
\* "twitter"
S_twitter == <<116, 119, 105, 116, 116, 101, 114>>
\* "news"
S_news == <<110, 101, 119, 115>>
\* "reddit"
S_reddit == <<114, 101, 100, 100, 105, 116>>

\* f"eventdata_source_{s}"
Col(s) == S_eventdata_source_ \o s

\* c.startswith(prefix)
StartsWith(c, prefix) ==
    Len(c) >= Len(prefix) /\ SubSeq(c, 1, Len(prefix)) = prefix

\* a < b for Python strings: by code point, a proper prefix first
RECURSIVE StrLess(_, _)
StrLess(a, b) ==
    IF b = <<>> THEN FALSE
    ELSE IF a = <<>> THEN TRUE
    ELSE IF Head(a) # Head(b) THEN Head(a) < Head(b)
    ELSE StrLess(Tail(a), Tail(b))

\* sorted(list of strings)
RECURSIVE Insert(_, _)
Insert(x, s) ==
    IF s = <<>> THEN <<x>>
    ELSE IF StrLess(x, Head(s)) THEN <<x>> \o s
    ELSE <<Head(s)>> \o Insert(x, Tail(s))

RECURSIVE Sorted(_)
Sorted(s) == IF s = <<>> THEN <<>> ELSE Insert(Head(s), Sorted(Tail(s)))

\* [x for x in s if x in keep]
RECURSIVE Filter(_, _)
Filter(s, keep) ==
    IF s = <<>> THEN <<>>
    ELSE (IF Head(s) \in keep THEN <<Head(s)>> ELSE <<>>) \o Filter(Tail(s), keep)

\* the pairs of d whose key is not in drop
RECURSIVE FilterOutKeys(_, _)
FilterOutKeys(d, drop) ==
    IF d = <<>> THEN <<>>
    ELSE (IF Head(d)[1] \notin drop THEN <<Head(d)>> ELSE <<>>)
         \o FilterOutKeys(Tail(d), drop)

\* [x for x in s if x not in drop]
RECURSIVE FilterOut(_, _)
FilterOut(s, drop) ==
    IF s = <<>> THEN <<>>
    ELSE (IF Head(s) \notin drop THEN <<Head(s)>> ELSE <<>>) \o FilterOut(Tail(s), drop)

(***************************************************************************)
(* ordenar_colunas                                                         *)
(***************************************************************************)
cols_base ==
    << S_orcid, S_put_code, S_title, S_type, S_publication_year_orcid,
       S_source_orcid, S_doi,
       S_crossref_is_referenced_by_count, S_crossref_references_count,
       S_crossref_container_title, S_crossref_publisher, S_crossref_issued_year >>

cols_crossref == SubSeq(cols_base, 8, 12)

EventCols(columns) ==
    { c \in Range(columns) : StartsWith(c, S_eventdata_source_) }

ordenar_colunas_unsorted(columns, fontes) ==
    LET present == Range(columns)
        cols_fixas == Filter([k \in 1..Len(fontes) |-> Col(fontes[k])], present)
        cols_outras == Filter(FilterOut(columns, Range(cols_fixas)), EventCols(columns))
    IN Filter(cols_base, present) \o cols_fixas \o cols_outras
       \o FilterOut(columns, Range(cols_base) \cup Range(cols_fixas) \cup Range(cols_outras))

ordenar_colunas(columns, fontes) ==
    LET present == Range(columns)
        cols_fixas == Filter([k \in 1..Len(fontes) |-> Col(fontes[k])], present)
        cols_outras ==
            Sorted(Filter(FilterOut(columns, Range(cols_fixas)), EventCols(columns)))
    IN Filter(cols_base, present) \o cols_fixas \o cols_outras
       \o FilterOut(columns, Range(cols_base) \cup Range(cols_fixas) \cup Range(cols_outras))

\* pd.DataFrame(linhas).columns: the keys of the rows, each where it first appears
RECURSIVE DataFrameColumns(_)
DataFrameColumns(rows) ==
    IF rows = <<>> THEN <<>>
    ELSE LET before == DataFrameColumns(SubSeq(rows, 1, Len(rows) - 1))
         IN before \o FilterOut(Keys(rows[Len(rows)]), Range(before))

\* the cell of a table at a row and a column
Cell(row, col) == DictGet(row, col, NaN)

(***************************************************************************)
(* Bounds of the model and what the upstream services may answer           *)
(***************************************************************************)
MaxOrcids == 2
MaxWorks == 2
MaxPages == 3
MaxEvents == 1

\* "0000-0002-1825-009k": the identifiers main passes are valid, normalised and
\* distinct
OrcidOf(k) ==
    <<48, 48, 48, 48, 45, 48, 48, 48, 50, 45, 49, 56, 50, 53, 45, 48, 48, 57, Digit(k)>>

OrcidList(n) == [k \in 1..n |-> OrcidOf(k)]

\* The lists main can pass as fontes_fixas: st.multiselect gives a selection
\* without repetition, and main refuses an empty one.
FontesChoices ==
    { <<S_twitter, S_news>>, <<S_news, S_unknown, S_twitter>> }

SeqsUpTo(S, n) == UNION { [1..k -> S] : k \in 0..n }

\* One entry of listar_works_orcid's result
WorkSummary(code) ==
    [ put_code |-> code,
      title |-> IF code = 1 THEN "Title one" ELSE None,
      type |-> "journal-article",
      publication_year_orcid |-> IF code = 1 THEN "2020" ELSE None,
      source_orcid |-> None ]

\* The work listings of the registry: up to n works, put-codes 1, 2, 1, ...
WorkLists(n) == { [k \in 1..m |-> WorkSummary(2 - (k % 2))] : m \in 0..n }

\* The DOIs a work detail may resolve to
Dois == { "10.1000/a" }

\* The values of next-cursor in a page: absent, empty, or a token
Cursors == { None, "", "c1", "c2" }

\* A page of events is the list of its events' source fields: a label, or NoStr
\* for an event without one.
LeanLabels == { S_twitter }
RichLabels == { SPACE \o S_reddit \o SPACE, NoStr, <<>>, SPACE \o SPACE }

\* What crossref_por_doi returns: every field may be None
CrossrefRecords ==
    { << <<S_crossref_is_referenced_by_count, IntV(12)>>,
         <<S_crossref_references_count, IntV(30)>>,
         <<S_crossref_container_title, StrV("Journal")>>,
         <<S_crossref_publisher, NoneV>>,
         <<S_crossref_issued_year, IntV(2020)>> >>,
      [k \in 1..Len(cols_crossref) |-> <<cols_crossref[k], NoneV>>] }

(***************************************************************************)
(* eventdata_por_doi                                                       *)
(***************************************************************************)
\* line 185: page > max_pages
PassouLimite_off_by_one(p, max_pages) == p > max_pages + 1
PassouLimite(p, max_pages) == p > max_pages

\* line 204: (ev.get("source") or "unknown").strip()
EvSource(ev) == Strip(IF ev = NoStr \/ ev = <<>> THEN S_unknown ELSE ev)

\* lines 203-205: the events of a page added to the tally
RECURSIVE Tally(_, _)
Tally(contagem, events) ==
    IF events = <<>> THEN contagem
    ELSE LET src == EvSource(Head(events))
         IN Tally(DictSet(contagem, src, DictGet(contagem, src, 0) + 1), Tail(events))

\* lines 199, 203: the source fields of the events the pages of the call have
\* held, as received: how many events came with each one. A field that is the
\* empty string is recorded with the absent ones (NoStr): both are the events
\* without a source, and line 204 tests them with the same `or`.
SemFonte(ev) == IF ev = <<>> THEN NoStr ELSE ev

AddRotulo(vistos, ev) ==
    LET f == SemFonte(ev)
    IN IF f \in DOMAIN vistos THEN [vistos EXCEPT ![f] = @ + 1]
       ELSE [l \in DOMAIN vistos \cup {f} |-> IF l = f THEN 1 ELSE vistos[l]]

RECURSIVE Vistos(_, _)
Vistos(vistos, events) ==
    IF events = <<>> THEN vistos
    ELSE Vistos(AddRotulo(vistos, Head(events)), Tail(events))

\* line 208: not next_cursor or next_cursor == cursor
CursorParado_absent_only(next_cursor, cur) == next_cursor = None \/ next_cursor = ""
CursorParado(next_cursor, cur) ==
    next_cursor = None \/ next_cursor = "" \/ next_cursor = cur

\* lines 214-221: the columns of a tally, the fixed sources first
EventdataOut_seen_only(fontes, contagem) ==
    [k \in 1..Len(contagem) |-> <<Col(contagem[k][1]), IntV(contagem[k][2])>>]
EventdataOut(fontes, contagem) ==
    LET fixas == [k \in 1..Len(fontes) |->
                    <<Col(fontes[k]), IntV(DictGet(contagem, fontes[k], 0))>>]
        out == DictUpdate(<<>>, fixas)
        outras == [k \in 1..Len(contagem) |->
                    <<Col(contagem[k][1]), IntV(contagem[k][2])>>]
    IN out \o FilterOutKeys(outras, Range(Keys(out)))

(***************************************************************************)
(* coletar_para_lista_orcids: the rows                                     *)
(***************************************************************************)
\* lines 274-282
BaseRow(o, w, d) ==
    << <<S_orcid, <<"chars", o>>>>,
       <<S_put_code, IntV(w.put_code)>>,
       <<S_title, OptV(w.title)>>,
       <<S_type, OptV(w.type)>>,
       <<S_publication_year_orcid, OptV(w.publication_year_orcid)>>,
       <<S_source_orcid, OptV(w.source_orcid)>>,
       <<S_doi, OptV(d)>> >>

\* lines 289-295
CrossrefNulls == [k \in 1..Len(cols_crossref) |-> <<cols_crossref[k], NoneV>>]

\* lines 310-311 and 313-314: every fixed source column set to 0
ZeroFixas(row, fontes) ==
    DictUpdate(row, [k \in 1..Len(fontes) |-> <<Col(fontes[k]), IntV(0)>>])

\* lines 309-311: the row after a failed mention aggregation
LinhaAposFalha_partial(row, fontes, contagem) ==
    DictUpdate(row, EventdataOut(fontes, contagem))
LinhaAposFalha(row, fontes, contagem) == ZeroFixas(row, fontes)

\* line 316: linhas.append(linha)
AppendLinha_dedup_doi(rows, row) ==
    IF /\ DictGet(row, S_doi, NoneV) # NoneV
       /\ \E k \in 1..Len(rows) : DictGet(rows[k], S_doi, NoneV) = DictGet(row, S_doi, NoneV)
    THEN rows
    ELSE Append(rows, row)
AppendLinha(rows, row) == Append(rows, row)

(***************************************************************************)
(* coletar_para_lista_orcids and eventdata_por_doi, one step per request   *)
(*                                                                         *)
(* io lists, for the work being processed, the requests sent ("detail",     *)
(* "crossref", "page") and the inter-page delay of line 212 ("delay");     *)
(* resposta is the answer to the last page request and eventos_vistos the  *)
(* number of events the pages of the call have held, rotulos_vistos how    *)
(* many of them came with each source field. The delays before             *)
(* each request stage (lines 246, 268, 286, 298) change no state and are   *)
(* left out.                                                               *)
(***************************************************************************)
\* the answer to a page request: the cursor the request used, the number of
\* events of the page (-1: the request failed) and the page's next cursor
PageAnswer(cur, n, next) == [cursor |-> cur, n |-> n, next |-> next]
NoPage == PageAnswer(None, 0, None)

total_orcids == Len(orcids)
Max(a, b) == IF a > b THEN a ELSE b

\* lines 239-253: the work listing of the next identifier fails; the failure is
\* logged and the loop continues with the next identifier
ListarWorksFalha ==
    /\ pc = "orcid_loop"
    /\ idx_orcid < total_orcids
    /\ idx_orcid' = idx_orcid + 1
    /\ orcid' = normalizar_orcid(orcids[idx_orcid + 1])
    /\ log_erros' = Append(log_erros, orcid')
    /\ listed' = Append(listed, [orcid |-> orcid', ok |-> FALSE, works |-> <<>>])
    /\ UNCHANGED <<orcid_arg, orcid_ret, varsA, pc, works, i, doi, linha, linhas,
                   varsM, varsE, progress_log, io, resposta, eventos_vistos, rotulos_vistos>>

\* lines 239-257: the work listing succeeds and progress is reported
ListarWorksOk ==
    /\ pc = "orcid_loop"
    /\ idx_orcid < total_orcids
    /\ \E ws \in upstream.works :
        /\ works' = ws
        /\ listed' = Append(listed,
                        [orcid |-> normalizar_orcid(orcids[idx_orcid + 1]),
                         ok |-> TRUE, works |-> ws])
    /\ idx_orcid' = idx_orcid + 1
    /\ orcid' = normalizar_orcid(orcids[idx_orcid + 1])
    /\ progress_log' = Append(progress_log, <<idx_orcid + 1, Max(total_orcids, 1)>>)
    /\ i' = 0
    /\ pc' = "work_loop"
    /\ UNCHANGED <<orcid_arg, orcid_ret, varsA, doi, linha, linhas, varsM, varsE,
                   log_erros, io, resposta, eventos_vistos, rotulos_vistos>>

\* line 259: the works of the identifier are exhausted
FimWorks ==
    /\ pc = "work_loop"
    /\ i = Len(works)
    /\ pc' = "orcid_loop"
    /\ UNCHANGED <<orcid_arg, orcid_ret, varsA, idx_orcid, orcid, works, i, doi,
                   linha, linhas, varsM, varsE, varsH>>

\* lines 259-282, 312-316: the work detail fails or holds no DOI; the row gets
\* its fixed source columns set to 0 and is appended
DetalheSemDoi ==
    /\ pc = "work_loop"
    /\ i < Len(works)
    /\ i' = i + 1
    /\ doi' = None
    /\ io' = <<"detail">>
    /\ linha' = ZeroFixas(BaseRow(orcid, works[i + 1], None), fontes_fixas)
    /\ linhas' = AppendLinha(linhas, linha')
    /\ UNCHANGED <<orcid_arg, orcid_ret, varsA, pc, idx_orcid, orcid, works, varsM,
                   varsE, progress_log, log_erros, resposta, eventos_vistos, rotulos_vistos, listed>>

\* lines 259-284: the work detail resolves a DOI
DetalheComDoi ==
    /\ pc = "work_loop"
    /\ i < Len(works)
    /\ i' = i + 1
    /\ \E d \in Dois : doi' = d
    /\ io' = <<"detail">>
    /\ linha' = BaseRow(orcid, works[i + 1], doi')
    /\ pc' = "crossref"
    /\ UNCHANGED <<orcid_arg, orcid_ret, varsA, idx_orcid, orcid, works, linhas,
                   varsM, varsE, progress_log, log_erros, resposta, eventos_vistos, rotulos_vistos,
                   listed>>

\* lines 285-295, 297-298, 179-181: the metadata request fails, the five
\* citation columns are set to None, and eventdata_por_doi is entered
CrossrefFalha ==
    /\ pc = "crossref"
    /\ io' = Append(io, "crossref")
    /\ linha' = DictUpdate(linha, CrossrefNulls)
    /\ contagem_por_fonte' = <<>> /\ cursor' = None /\ page' = 0
    /\ resposta' = NoPage /\ eventos_vistos' = 0 /\ rotulos_vistos' = <<>>
    /\ pc' = "eventdata"
    /\ UNCHANGED <<orcid_arg, orcid_ret, varsA, idx_orcid, orcid, works, i, doi,
                   linhas, varsM, progress_log, log_erros, listed>>

\* lines 285-287, 297-298, 179-181: the metadata request succeeds
CrossrefOk ==
    /\ pc = "crossref"
    /\ io' = Append(io, "crossref")
    /\ \E rec \in upstream.crossref : linha' = DictUpdate(linha, rec)
    /\ contagem_por_fonte' = <<>> /\ cursor' = None /\ page' = 0
    /\ resposta' = NoPage /\ eventos_vistos' = 0 /\ rotulos_vistos' = <<>>
    /\ pc' = "eventdata"
    /\ UNCHANGED <<orcid_arg, orcid_ret, varsA, idx_orcid, orcid, works, i, doi,
                   linhas, varsM, progress_log, log_erros, listed>>

\* lines 214-221, 299-308, 316: eventdata_por_doi returns its columns, the row
\* takes them and is appended
Devolve(contagem, linha_atual) ==
    /\ linha' = DictUpdate(linha_atual, EventdataOut(fontes_fixas, contagem))
    /\ linhas' = AppendLinha(linhas, linha')
    /\ pc' = "work_loop"

\* lines 183-186: the page counter passes max_pages and the loop ends
EvLimite ==
    /\ pc = "eventdata"
    /\ PassouLimite(page + 1, eventdata_max_pages)
    /\ page' = page + 1
    /\ Devolve(contagem_por_fonte, linha)
    /\ UNCHANGED <<orcid_arg, orcid_ret, varsA, idx_orcid, orcid, works, i, doi,
                   varsM, cursor, contagem_por_fonte, varsH>>

\* lines 183-195, 309-311, 316: a page request fails; eventdata_por_doi raises,
\* the row gets its fixed source columns set to 0 and is appended
EvFalha ==
    /\ pc = "eventdata"
    /\ ~PassouLimite(page + 1, eventdata_max_pages)
    /\ page' = page + 1
    /\ io' = Append(io, "page")
    /\ resposta' = PageAnswer(cursor, -1, None)
    /\ linha' = LinhaAposFalha(linha, fontes_fixas, contagem_por_fonte)
    /\ linhas' = AppendLinha(linhas, linha')
    /\ pc' = "work_loop"
    /\ UNCHANGED <<orcid_arg, orcid_ret, varsA, idx_orcid, orcid, works, i, doi,
                   varsM, cursor, contagem_por_fonte, progress_log, log_erros,
                   eventos_vistos, rotulos_vistos, listed>>

\* lines 183-201: the page holds no event and the loop ends
EvPaginaVazia ==
    /\ pc = "eventdata"
    /\ ~PassouLimite(page + 1, eventdata_max_pages)
    /\ page' = page + 1
    /\ io' = Append(io, "page")
    /\ \E next_cursor \in upstream.cursors : resposta' = PageAnswer(cursor, 0, next_cursor)
    /\ Devolve(contagem_por_fonte, linha)
    /\ UNCHANGED <<orcid_arg, orcid_ret, varsA, idx_orcid, orcid, works, i, doi,
                   varsM, cursor, contagem_por_fonte, progress_log, log_erros,
                   eventos_vistos, rotulos_vistos, listed>>

\* lines 183-209: the events of the page are tallied; the next cursor is absent
\* or the one just used, and the loop ends
EvPaginaFinal ==
    /\ pc = "eventdata"
    /\ ~PassouLimite(page + 1, eventdata_max_pages)
    /\ page' = page + 1
    /\ \E events \in upstream.pages \ {<<>>}, next_cursor \in upstream.cursors :
        /\ CursorParado(next_cursor, cursor)
        /\ resposta' = PageAnswer(cursor, Len(events), next_cursor)
        /\ eventos_vistos' = eventos_vistos + Len(events)
        /\ rotulos_vistos' = Vistos(rotulos_vistos, events)
        /\ contagem_por_fonte' = Tally(contagem_por_fonte, events)
        /\ Devolve(contagem_por_fonte', linha)
    /\ io' = Append(io, "page")
    /\ UNCHANGED <<orcid_arg, orcid_ret, varsA, idx_orcid, orcid, works, i, doi,
                   varsM, cursor, progress_log, log_erros, listed>>

\* lines 183-212: the events of the page are tallied, the cursor advances and
\* the inter-page delay is taken
EvPaginaSegue ==
    /\ pc = "eventdata"
    /\ ~PassouLimite(page + 1, eventdata_max_pages)
    /\ page' = page + 1
    /\ \E events \in upstream.pages \ {<<>>}, next_cursor \in upstream.cursors :
        /\ ~CursorParado(next_cursor, cursor)
        /\ resposta' = PageAnswer(cursor, Len(events), next_cursor)
        /\ eventos_vistos' = eventos_vistos + Len(events)
        /\ rotulos_vistos' = Vistos(rotulos_vistos, events)
        /\ contagem_por_fonte' = Tally(contagem_por_fonte, events)
        /\ cursor' = next_cursor
    /\ io' = Append(Append(io, "page"), "delay")
    /\ UNCHANGED <<orcid_arg, orcid_ret, varsA, pc, idx_orcid, orcid, works, i, doi,
                   linha, linhas, varsM, progress_log, log_erros, listed>>

\* line 318: the identifiers are exhausted and the table is built
Retorna ==
    /\ pc = "orcid_loop"
    /\ idx_orcid = total_orcids
    /\ df_columns' = DataFrameColumns(linhas)
    /\ pc' = "ordenar"
    /\ UNCHANGED <<orcid_arg, orcid_ret, varsA, idx_orcid, orcid, works, i, doi,
                   linha, linhas, cols_out, varsE, varsH>>

\* main, line 492: df_out = ordenar_colunas(df, fontes_fixas)
OrdenarColunas ==
    /\ pc = "ordenar"
    /\ cols_out' = ordenar_colunas(df_columns, fontes_fixas)
    /\ pc' = "done"
    /\ UNCHANGED <<orcid_arg, orcid_ret, varsA, idx_orcid, orcid, works, i, doi,
                   linha, linhas, df_columns, varsE, varsH>>

Next ==
    \/ ListarWorksFalha \/ ListarWorksOk \/ FimWorks
    \/ DetalheSemDoi \/ DetalheComDoi
    \/ CrossrefFalha \/ CrossrefOk
    \/ EvLimite \/ EvFalha \/ EvPaginaVazia \/ EvPaginaFinal \/ EvPaginaSegue
    \/ Retorna \/ OrdenarColunas

InitLocals ==
    /\ IdleO
    /\ pc = "orcid_loop" /\ idx_orcid = 0 /\ orcid = NoStr /\ works = <<>> /\ i = 0
    /\ doi = None /\ linha = <<>> /\ linhas = <<>>
    /\ df_columns = <<>> /\ cols_out = <<>>
    /\ page = 0 /\ cursor = None /\ contagem_por_fonte = <<>>
    /\ progress_log = <<>> /\ log_erros = <<>> /\ io = <<>> /\ listed = <<>>
    /\ resposta = NoPage /\ eventos_vistos = 0 /\ rotulos_vistos = <<>>

\* Specification Spec: a run of main's collection over up to MaxOrcids
\* identifiers of up to MaxWorks works each; one page per DOI, of at most one
\* event
Init ==
    /\ orcids \in { OrcidList(n) : n \in 1..MaxOrcids }
    /\ fontes_fixas = <<S_twitter, S_news>>
    /\ eventdata_max_pages = 1
    /\ upstream = [works |-> WorkLists(MaxWorks),
                   pages |-> SeqsUpTo(LeanLabels, 1),
                   crossref |-> { CrossrefNulls },
                   cursors |-> { None, "c1" }]
    /\ InitLocals

Spec == Init /\ [][Next]_vars

\* Specification SpecEventData: a run over one identifier with one work, up to
\* MaxPages pages per DOI, of up to MaxEvents events whose labels may be absent,
\* empty, blank or padded
InitEventData ==
    /\ orcids = OrcidList(1)
    /\ fontes_fixas \in FontesChoices
    /\ eventdata_max_pages \in 1..MaxPages
    /\ upstream = [works |-> { <<WorkSummary(1)>> },
                   pages |-> SeqsUpTo(RichLabels, MaxEvents),
                   crossref |-> CrossrefRecords,
                   cursors |-> Cursors]
    /\ InitLocals

SpecEventData == InitEventData /\ [][Next]_vars

(***************************************************************************)
(* Properties                                                              *)
(***************************************************************************)
Last(s) == s[Len(s)]
CountOp(op) == Cardinality({ k \in 1..Len(io) : io[k] = op })
\* the page requests of the mention aggregation of the work being processed
PageRequests == CountOp("page")
\* eventdata_por_doi has been entered for the work being processed
InCall == "crossref" \in Range(io)
\* ... and has returned or raised
CallOver == InCall /\ pc # "eventdata"

RECURSIVE SumCounts(_)
SumCounts(contagem) ==
    IF contagem = <<>> THEN 0 ELSE Head(contagem)[2] + SumCounts(Tail(contagem))

\* the sum of the eventdata_source_* cells of a row
RECURSIVE SumMentions(_)
SumMentions(row) ==
    IF row = <<>> THEN 0
    ELSE (IF StartsWith(Head(row)[1], S_eventdata_source_) THEN Head(row)[2][2] ELSE 0)
         + SumMentions(Tail(row))

FixedCols == { Col(fontes_fixas[k]) : k \in 1..Len(fontes_fixas) }

\* ---- C1 ----
\* C1: whatever the pages hold, a call of eventdata_por_doi sends at most
\* max_pages page requests: the loop counter never passes max_pages + 1, every
\* request but the counted ones is refused, and once max_pages requests are out
\* the call has ended or ends at its next step without a request.
C1_AtMostMaxPages ==
    /\ PageRequests <= eventdata_max_pages
    /\ page <= eventdata_max_pages + 1
    /\ (InCall /\ pc = "eventdata") => (page = PageRequests /\ page <= eventdata_max_pages)

\* C1 witness: every page held events and a cursor never seen before, and the
\* call ended after exactly max_pages requests, the largest number modelled.
C1_Witness ==
    /\ CallOver
    /\ eventdata_max_pages = MaxPages
    /\ PageRequests = eventdata_max_pages
    /\ resposta.n > 0 /\ resposta.next \notin {None, "", resposta.cursor}
    /\ page = eventdata_max_pages + 1
    /\ Len(linhas) = 1

\* ---- C2 ----
\* a page answer after which the claim says the aggregation stops
Terminal(r) == r.n = 0 \/ (r.n > 0 /\ (r.next = None \/ r.next = r.cursor))

\* C2: when the answer to a page request holds no event, or holds events and a
\* next cursor that is absent or the cursor the request used, the call ends
\* with that request (no delay, no further request); the events of every page
\* received, the last one included, are in the tally, and the columns returned
\* sum to them.
C2_StopsOnEmptyOrStagnant ==
    InCall =>
        /\ (PageRequests > 0 /\ Terminal(resposta)) =>
                (pc # "eventdata" /\ Last(io) = "page")
        /\ SumCounts(contagem_por_fonte) = eventos_vistos
        /\ (CallOver /\ resposta.n >= 0) => SumMentions(linha) = eventos_vistos

\* C2 witness: the second page came with events and the cursor the request had
\* used; the call ended there, below max_pages, with those events counted.
C2_Witness ==
    /\ CallOver
    /\ resposta.n > 0 /\ resposta.cursor = "c1" /\ resposta.next = "c1"
    /\ PageRequests = 2 /\ PageRequests < eventdata_max_pages
    /\ SumMentions(linha) = eventos_vistos /\ eventos_vistos >= 2

\* ---- C9 ----
\* C9 as stated: when a call of eventdata_por_doi is over, every inter-page
\* delay it took was followed by a page request; none came after the last one.
C9_NoDelayAfterLastPage ==
    CallOver => \A k \in 1..Len(io) :
                    io[k] = "delay" => (k < Len(io) /\ io[k + 1] = "page")

\* ---- C3 ----
\* the <<identifier, put-code>> pairs of a list of works of one identifier
WorkIds(o, ws) == [k \in 1..Len(ws) |-> <<o, ws[k].put_code>>]

\* the rows the listings answered so far call for: for each identifier in input
\* order, nothing when its listing failed, else one row per listed work in
\* listing order
RECURSIVE ExpectedRows(_)
ExpectedRows(n) ==
    IF n = 0 THEN <<>>
    ELSE ExpectedRows(n - 1)
         \o (IF listed[n].ok THEN WorkIds(orcids[n], listed[n].works) ELSE <<>>)

RowIds == [k \in 1..Len(linhas) |->
            <<Cell(linhas[k], S_orcid)[2], Cell(linhas[k], S_put_code)[2]>>]

IsPrefix(s, u) == Len(s) <= Len(u) /\ s = SubSeq(u, 1, Len(s))

\* the identifiers whose listing failed, in input order
RECURSIVE FailedOrcids(_)
FailedOrcids(n) ==
    IF n = 0 THEN <<>>
    ELSE FailedOrcids(n - 1) \o (IF listed[n].ok THEN <<>> ELSE <<orcids[n]>>)

\* C3: the rows are, in order, one per listed work of every identifier whose
\* listing succeeded, in input identifier order and then listing order, with
\* nothing dropped, merged or moved; a failed listing gives no row and one log
\* entry, and the run goes on to the last identifier. While an identifier is
\* being processed the rows are the prefix built so far.
C3_RowsFollowListings ==
    /\ Len(listed) = idx_orcid
    /\ \A k \in 1..Len(listed) : listed[k].orcid = orcids[k]
    /\ log_erros = FailedOrcids(Len(listed))
    /\ IsPrefix(RowIds, ExpectedRows(Len(listed)))
    /\ pc \in {"orcid_loop", "ordenar", "done"} => RowIds = ExpectedRows(Len(listed))
    /\ pc = "work_loop" =>
            Len(linhas) = Len(ExpectedRows(Len(listed) - 1)) + i
    /\ pc \in {"ordenar", "done"} => idx_orcid = Len(orcids)

\* C3 witness: the first identifier's listing failed and was logged, the second
\* listed two works that resolved the same DOI, the mention request of the last
\* one failed, and the finished run holds exactly those two rows, in order.
C3_Witness ==
    /\ pc = "done"
    /\ Len(orcids) = 2 /\ ~listed[1].ok /\ listed[2].ok
    /\ log_erros = <<orcids[1]>>
    /\ Len(listed[2].works) = 2
    /\ Len(linhas) = 2
    /\ Cell(linhas[1], S_doi) = Cell(linhas[2], S_doi)
    /\ Cell(linhas[1], S_doi) # NoneV
    /\ Cell(linhas[1], S_put_code) # Cell(linhas[2], S_put_code)
    /\ resposta.n = -1

\* ---- C4 ----
\* C4: when a page request of the mention aggregation fails, on the first page
\* or after pages that were tallied, the row of the work is appended with every
\* configured fixed source column at 0 and no other eventdata_source_* column.
C4_FailureGivesZeros ==
    (CallOver /\ resposta.n = -1) =>
        /\ linhas # <<>> /\ Last(linhas) = linha
        /\ \A c \in FixedCols : Cell(linha, c) = IntV(0)
        /\ EventCols(Keys(linha)) = FixedCols
        /\ SumMentions(linha) = 0

\* C4 witness: a page with events of a source that is not configured was
\* tallied, then the next page request failed.
C4_Witness ==
    /\ CallOver /\ resposta.n = -1
    /\ PageRequests >= 2
    /\ eventos_vistos > 0
    /\ \E k \in 1..Len(contagem_por_fonte) : Col(contagem_por_fonte[k][1]) \notin FixedCols
    /\ Last(linhas) = linha

\* ---- C5 ----
IsCount(v) == v[1] = "int" /\ v[2] \in Nat

\* C5: every row appended holds, for every configured fixed source, a column
\* eventdata_source_<source> whose value is a non-negative integer.
C5_FixedColumnsEveryRow ==
    \A k \in 1..Len(linhas) : \A c \in FixedCols :
        HasKey(linhas[k], c) /\ IsCount(Cell(linhas[k], c))

\* C5 witness: a row of a successful aggregation in which a configured source
\* was counted and two others never appeared and stand at 0.
C5_Witness ==
    /\ CallOver /\ resposta.n >= 0
    /\ Len(linhas) = 1 /\ Cell(linhas[1], S_doi) # NoneV
    /\ Len(fontes_fixas) = 3
    /\ Cell(linhas[1], Col(S_unknown))[2] > 0
    /\ Cell(linhas[1], Col(S_news)) = IntV(0)
    /\ Cell(linhas[1], Col(S_twitter)) = IntV(0)

\* ---- C6 ----
\* C6 as stated: a finished run over one identifier whose listing gave one work
\* for which no DOI was resolved has one row; its DOI cell is null, every
\* mention column of the table is 0, each of the five crossref_* columns is in
\* the table with a null cell, and only the detail request was sent for the work.
C6_NoDoiRow ==
    (/\ pc = "done" /\ Len(orcids) = 1 /\ listed[1].ok
     /\ Len(listed[1].works) = 1 /\ doi = None) =>
        /\ Len(linhas) = 1
        /\ S_doi \in Range(cols_out) /\ Cell(linhas[1], S_doi) = NoneV
        /\ \A c \in EventCols(cols_out) : Cell(linhas[1], c) = IntV(0)
        /\ FixedCols \subseteq Range(cols_out)
        /\ io = <<"detail">>
        /\ \A k \in 1..Len(cols_crossref) :
            /\ cols_crossref[k] \in Range(cols_out)
            /\ Cell(linhas[1], cols_crossref[k]) \in {NoneV, NaN}

\* ---- C7 ----
\* a before b in the order of Python strings
LexBefore(a, b) ==
    \E k \in 1..(Len(b)) :
        /\ k <= Len(a) + 1
        /\ \A j \in 1..(k - 1) : a[j] = b[j]
        /\ (k = Len(a) + 1 \/ a[k] < b[k])

IndexIn(s, x) == CHOOSE k \in 1..Len(s) : s[k] = x

\* the family of a column: 1 base, 2 configured fixed source, 3 other
\* eventdata_source_* column, 4 anything else
ColClass(c) ==
    IF c \in Range(cols_base) THEN 1
    ELSE IF c \in FixedCols THEN 2
    ELSE IF StartsWith(c, S_eventdata_source_) THEN 3
    ELSE 4

Completed == IF pc \in {"orcid_loop", "ordenar", "done"} THEN idx_orcid ELSE idx_orcid - 1

\* C10 as stated: progress has been reported once for each identifier whose
\* iteration is over (rows appended, or skipped on a failed listing) and for no
\* other, the k-th report being k / total; so the reports never decrease and the
\* last one of a finished run is 1.
C10_ProgressPerIdentifier ==
    /\ progress_log = [k \in 1..Completed |-> <<k, Len(orcids)>>]
    /\ pc = "done" => (progress_log # <<>> /\ Last(progress_log)[1] = Last(progress_log)[2])

\* ---- C11 ----
\* the label an event is to be counted under: "unknown" when its source field
\* is absent, empty or whitespace only, and the trimmed field otherwise
RotuloEsperado(ev) ==
    IF ev = NoStr THEN S_unknown
    ELSE IF Strip(ev) = <<>> THEN S_unknown ELSE Strip(ev)

\* how many of the events seen are to be counted under a label
RECURSIVE EventosSob(_, _)
EventosSob(label, fields) ==
    IF fields = {} THEN 0
    ELSE LET ev == CHOOSE e \in fields : TRUE
         IN (IF RotuloEsperado(ev) = label THEN rotulos_vistos[ev] ELSE 0)
            + EventosSob(label, fields \ {ev})

\* C11 as stated: during and after a call of eventdata_por_doi, every event
\* whose source field is absent, empty or blank is counted under "unknown" and
\* every other event under its trimmed field; no tally key is the empty string
\* and the counts add up to the number of events in the pages fetched.
C11_BlankCountsAsUnknown ==
    InCall =>
        /\ \A ev \in DOMAIN rotulos_vistos :
                HasKey(contagem_por_fonte, RotuloEsperado(ev))
        /\ \A k \in 1..Len(contagem_por_fonte) :
                /\ contagem_por_fonte[k][1] # <<>>
                /\ contagem_por_fonte[k][2] =
                        EventosSob(contagem_por_fonte[k][1], DOMAIN rotulos_vistos)
        /\ SumCounts(contagem_por_fonte) = eventos_vistos
====
